---- MODULE Spec2Model ----
(***************************************************************************)
(* Memory substrate of autodiff-rust: the two Buffer implementations       *)
(* (src/memory/buffer.rs with alignment/init policies, src/buffer.rs with  *)
(* an Rc allocator), and Storage (src/storage.rs).                         *)
(*                                                                         *)
(* Spec    : construction of a Buffer / Storage at byte level, on a        *)
(*           machine whose usize has WordBits bits.                        *)
(* SpecSt  : the life of Storage values at element level (fill, read,      *)
(*           write, duplicate, destroy) for an element type T.             *)
(* SpecSh  : Shape arithmetic (src/shape.rs), the conversions of nested    *)
(*           containers into Tensors (src/tensorizable.rs) and Tensor      *)
(*           indexing (src/tensor.rs), on the Storage of SpecSt.           *)
(***************************************************************************)
EXTENDS Integers, Sequences, FiniteSets, Bags, TLC

VARIABLES
    build,          \* the build: [debug, target], fixed for a run (cfg!)
    builder,        \* the BufferBuilder value in hand, or NoBuilder
    req,            \* the arguments of the last construction
    obj,            \* the Buffer / Storage the construction returned
    phase,          \* "idle" | "built" | "panicked" | "aborted" | "dropped"
    allocCalls,     \* the allocate / allocate_zeroed / alloc calls made, in order
    deallocCalls,   \* the deallocate calls made, in order
    Ty,             \* SpecSt: the element type T of the Storages
    stores,         \* SpecSt: the Storage values made so far, by handle
    heap,           \* SpecSt: the memory regions behind them, by region
    nextId,         \* SpecSt: the next fresh identity of a T value
    log,            \* SpecSt: the bag of destructor runs and dealloc calls
    last,           \* SpecSt: the last operation and what it returned
    ubs,            \* SpecSt: the undefined behaviour run into so far
    run,            \* SpecSt: FALSE once the process was brought down
    ops,            \* SpecSt: the number of Storage operations made
    tensors         \* SpecSh: the Tensor values made so far

bvars == <<build, builder, req, obj, phase, allocCalls, deallocCalls>>

svars == <<Ty, stores, heap, nextId, log, last, ubs, run, ops>>

vars == <<bvars, svars, tensors>>

----------------------------------------------------------------------------
(* The machine word.  usize has WordBits bits; isize::MAX is half of it.   *)

WordBits == 7

WordMod == 2 ^ WordBits

USIZE_MAX == WordMod - 1

ISIZE_MAX == (WordMod \div 2) - 1

\* The result of an operation that panicked instead of returning a usize.
PANIC == 0 - 1

\* Contents of one byte of memory: a byte value, or UNDEF for a byte the
\* allocator handed out without writing it.
UNDEF == 0 - 2

POISON == 171

\* usize::is_power_of_two
is_power_of_two(n) == \E k \in 0..(WordBits - 1) : n = 2 ^ k

RECURSIVE BitAndN(_, _, _)
BitAndN(a, b, n) ==
    IF n = 0 THEN 0
    ELSE 2 * BitAndN(a \div 2, b \div 2, n - 1)
         + (IF a % 2 = 1 /\ b % 2 = 1 THEN 1 ELSE 0)

\* usize `&` and `!`
BitAnd(a, b) == BitAndN(a, b, WordBits)

BitNot(a) == USIZE_MAX - a

\* usize::wrapping_mul
wrapping_mul(a, b) == (a * b) % WordMod

\* usize::checked_mul(..).unwrap_or_else(|| panic!(..))
checked_mul(a, b) == IF a * b > USIZE_MAX THEN PANIC ELSE a * b

\* usize `+`, `-`, `*`: a panic when overflow checks are compiled in (the
\* debug profile), two's complement wrapping otherwise (the release profile).
uadd(a, b, oc) ==
    IF a + b > USIZE_MAX THEN (IF oc THEN PANIC ELSE (a + b) % WordMod) ELSE a + b

usub(a, b, oc) ==
    IF a < b THEN (IF oc THEN PANIC ELSE (a - b) + WordMod) ELSE a - b

umul(a, b, oc) ==
    IF a * b > USIZE_MAX THEN (IF oc THEN PANIC ELSE (a * b) % WordMod) ELSE a * b

\* (x + align - 1) & !(align - 1), the rounding both align_to end with.
round_up(size_in_bytes, align, oc) ==
    LET s1 == uadd(size_in_bytes, align, oc) IN
    IF s1 = PANIC THEN PANIC
    ELSE LET s2 == usub(s1, 1, oc) IN
         IF s2 = PANIC THEN PANIC
         ELSE BitAnd(s2, BitNot(align - 1))

\* utils::align_to of both Buffer implementations.
utils_align_to(numel, tsize, align, oc) ==
    LET size_in_bytes == checked_mul(numel, tsize) IN
    IF size_in_bytes = PANIC THEN PANIC
    ELSE round_up(size_in_bytes, align, oc)

\* align_to of storage.rs.
align_to(numel, tsize, align, oc) ==
    IF tsize = 0 \/ numel = 0 THEN 0
    ELSE LET size_in_bytes == umul(numel, tsize, oc) IN
         IF size_in_bytes = PANIC THEN PANIC
         ELSE round_up(size_in_bytes, align, oc)

\* Layout::from_size_align(size, align).is_ok()
Layout_from_size_align(size, align) ==
    /\ is_power_of_two(align)
    /\ size <= (ISIZE_MAX + 1) - align

----------------------------------------------------------------------------
(* Memory of one allocation: a function from byte offsets to contents.     *)

\* Allocator::allocate / std::alloc::alloc: size bytes, none written.
allocate(size) == [i \in 0..(size - 1) |-> UNDEF]

\* Allocator::allocate_zeroed: size bytes, all zero.
allocate_zeroed(size) == [i \in 0..(size - 1) |-> 0]

\* ptr::write_bytes(base + start, val, nbytes), as far as it falls inside
\* the allocation.
write_bytes(m, start, nbytes, val) ==
    [i \in DOMAIN m |-> IF i >= start /\ i < start + nbytes THEN val ELSE m[i]]

\* One write made while constructing: the bytes [start, start + nbytes).
Wr(start, nbytes, val) == [start |-> start, end |-> start + nbytes, val |-> val]

----------------------------------------------------------------------------
(* Element types, by what the memory layer reads of them: size_of::<T>(),  *)
(* align_of::<T>().  () is the zero-sized type; [u8; 3] and a 12-byte      *)
(* struct have sizes that do not divide the alignments.                    *)

BufTypes ==
    { [size |-> 0,  align |-> 1],     \* ()
      [size |-> 1,  align |-> 1],     \* u8
      [size |-> 3,  align |-> 1],     \* [u8; 3]
      [size |-> 4,  align |-> 4],     \* f32
      [size |-> 8,  align |-> 8],     \* u64
      [size |-> 12, align |-> 4] }    \* [f32; 3]

Targets == {"neon", "avx2", "other"}

NEON_ALIGN == 16

AVX2_ALIGN == 32

\* Storage::ALIGN
ALIGN == 32

\* The alignments a caller passes to with_alignment; 3 is no power of two.
AlignInputs == {1, 3, 8, 32}

NumelInputs == 0..USIZE_MAX

NoBuilder == [impl |-> "none"]

NoObj == [kind |-> "none"]

NoReq == [ctor |-> "none"]

\* SimdAlignment::alignment::<T>() of policy.rs; BufferBuilder::alignment::<T>()
\* of buffer.rs is the same function.
SimdAlignment_alignment(T, target) ==
    LET ret == IF target = "neon" THEN NEON_ALIGN
               ELSE IF target = "avx2" THEN AVX2_ALIGN
               ELSE T.align
    IN  IF is_power_of_two(ret) THEN ret ELSE PANIC

\* CustomAlignment without its assertion.
CustomAlignment_unchecked(A) == A

\* CustomAlignment::<ALIGN>::alignment::<T>()
CustomAlignment_alignment(A) ==
    IF is_power_of_two(A) THEN A ELSE PANIC

\* <Align as AlignmentStrategy>::alignment::<T>()
AlignmentStrategy_alignment(Align, T, target) ==
    IF Align.kind = "simd" THEN SimdAlignment_alignment(T, target)
    ELSE CustomAlignment_alignment(Align.ALIGN)

\* <I as InitStrategy>::allocate(allocator, layout)
InitStrategy_allocate(I, size) ==
    IF I = "Zeroed" THEN allocate_zeroed(size) ELSE allocate(size)

\* zero_trailing_bytes with a fill that stops one byte short of the end.
zero_trailing_bytes_short(m, ws, length, tsize, size) ==
    LET start_offset == length * tsize IN
    IF start_offset >= size THEN [mem |-> m, writes |-> ws]
    ELSE LET pad_bytes == size - start_offset - 1 IN
         [mem    |-> write_bytes(m, start_offset, pad_bytes, 0),
          writes |-> Append(ws, Wr(start_offset, pad_bytes, 0))]

\* utils::zero_trailing_bytes(ptr, length, size) on the memory m with the
\* writes ws made so far.  Both callers have passed checked_mul on
\* length * size_of::<T>(), so the product here cannot overflow.
zero_trailing_bytes(m, ws, length, tsize, size) ==
    LET start_offset == length * tsize IN
    IF start_offset >= size THEN [mem |-> m, writes |-> ws]
    ELSE LET pad_bytes == size - start_offset IN
         [mem    |-> write_bytes(m, start_offset, pad_bytes, 0),
          writes |-> Append(ws, Wr(start_offset, pad_bytes, 0))]

\* The allocators a caller hands to build; Storage uses the global one.
Allocators == {"A1", "A2"}

\* How far up the allocator places a block: at PlaceInputs times the
\* alignment asked for.
PlaceInputs == {1, 2}

\* What an allocate call does: it fails, or returns a block at a non-null
\* address that is a multiple of the layout's alignment.
AllocOutcomes(names) ==
    [allocator : names, ok : {FALSE}, k : {1}]
        \cup [allocator : names, ok : {TRUE}, k : PlaceInputs]

\* One call on an allocator: its layout and the pointer it returned or was
\* given; a failed allocate returns no pointer (0).
Call(allocator, ptr, size, align) ==
    [allocator |-> allocator, ptr |-> ptr, size |-> size, align |-> align]

Allocate(al, size, align) ==
    Call(al.allocator, IF al.ok THEN al.k * align ELSE 0, size, align)

Panicked(why, allocs) ==
    [outcome |-> "panic", why |-> why, allocs |-> allocs, obj |-> NoObj]

Returned(o, allocs) ==
    [outcome |-> "ok", why |-> "", allocs |-> allocs, obj |-> o]

\* The two assertions without the one on numel.
Buffer_asserts_sized(numel, T) ==
    IF T.size = 0 THEN "ZSTs are not supported" ELSE ""

\* The assertions that open with_alignment in both Buffer implementations:
\* the message of the one that fails, "" when both pass.
Buffer_asserts(numel, T) ==
    IF T.size = 0 THEN "ZSTs are not supported"
    ELSE IF numel = 0 THEN "numel=0"
    ELSE ""

\* Buffer::with_alignment::<I, Align>(numel, allocator) of src/memory/buffer.rs
Buffer_with_alignment(numel, T, I, Align, dbg, target, al) ==
    IF Buffer_asserts(numel, T) # ""
    THEN Panicked(Buffer_asserts(numel, T), <<>>)
    ELSE LET align == AlignmentStrategy_alignment(Align, T, target) IN
    IF align = PANIC THEN Panicked("alignment", <<>>)
    ELSE LET size == utils_align_to(numel, T.size, align, dbg) IN
    IF size = PANIC THEN Panicked("overflowed", <<>>)
    ELSE IF ~Layout_from_size_align(size, align) THEN Panicked("layout", <<>>)
    ELSE IF ~al.ok THEN Panicked("allocator failed", <<Allocate(al, size, align)>>)
    ELSE LET m0 == InitStrategy_allocate(I, size)
             \* #[cfg(debug_assertions)] write_bytes(ptr.cast::<u8>(), 0xAB, size)
             m1 == IF dbg THEN write_bytes(m0, 0, size, POISON) ELSE m0
             w1 == IF dbg THEN <<Wr(0, size, POISON)>> ELSE <<>>
             z  == zero_trailing_bytes(m1, w1, numel, T.size, size)
         IN  Returned([kind |-> "Buffer", numel |-> numel, tsize |-> T.size,
                       size |-> size, align |-> align, mem |-> z.mem,
                       writes |-> z.writes, allocated |-> TRUE, ub |-> FALSE,
                       ptr |-> Allocate(al, size, align).ptr,
                       allocator |-> al.allocator],
                      <<Allocate(al, size, align)>>)

\* Buffer::with_alignment(numel, align, zeroed, allocator) of src/buffer.rs
RcBuffer_with_alignment(numel, T, align, zeroed, dbg, al) ==
    IF Buffer_asserts(numel, T) # ""
    THEN Panicked(Buffer_asserts(numel, T), <<>>)
    ELSE IF ~is_power_of_two(align) THEN Panicked("Alignment must be a power of two", <<>>)
    ELSE LET size == utils_align_to(numel, T.size, align, dbg) IN
    IF size = PANIC THEN Panicked("overflowed", <<>>)
    ELSE IF ~Layout_from_size_align(size, align) THEN Panicked("layout", <<>>)
    ELSE IF ~al.ok THEN Panicked("allocator failed", <<Allocate(al, size, align)>>)
    ELSE LET z == IF zeroed
                  THEN [mem |-> allocate_zeroed(size), writes |-> <<>>]
                  ELSE zero_trailing_bytes(allocate(size), <<>>, numel, T.size, size)
             \* #[cfg(debug_assertions)] write_bytes(ptr.as_ptr(), 0xAB, size):
             \* ptr is NonNull<T>, so the count is in units of T.
             nbytes == size * T.size
             m2 == IF dbg THEN write_bytes(z.mem, 0, nbytes, POISON) ELSE z.mem
             w2 == IF dbg THEN Append(z.writes, Wr(0, nbytes, POISON)) ELSE z.writes
         IN  Returned([kind |-> "RcBuffer", numel |-> numel, tsize |-> T.size,
                       size |-> size, align |-> align, mem |-> m2,
                       writes |-> w2, allocated |-> TRUE,
                       ub |-> (dbg /\ nbytes > size),
                       ptr |-> Allocate(al, size, align).ptr,
                       allocator |-> al.allocator],
                      <<Allocate(al, size, align)>>)

\* BufferBuilder::build::<T, A>(alloc) of src/buffer.rs: the alignment it
\* hands to with_alignment.
RcBufferBuilder_build_align(b, T, target) ==
    IF b.align = 1      \* self.align == std::mem::align_of::<()>()
    THEN SimdAlignment_alignment(T, target)
    ELSE b.align

\* Storage::pad_zeros on a Storage of len elements and layout size bytes.
pad_zeros(m, len, tsize, size, oc) ==
    IF size = 0 THEN [panic |-> FALSE, mem |-> m, writes |-> <<>>, ub |-> FALSE]
    ELSE LET padding_len_elements == usub(size \div tsize, len, oc) IN
         IF padding_len_elements = PANIC
         THEN [panic |-> TRUE, mem |-> m, writes |-> <<>>, ub |-> FALSE]
         ELSE LET padding_start == len * tsize
                  nbytes == padding_len_elements * tsize
              IN  [panic  |-> FALSE,
                   mem    |-> write_bytes(m, padding_start, nbytes, 0),
                   writes |-> <<Wr(padding_start, nbytes, 0)>>,
                   ub     |-> padding_start + nbytes > size]

\* Storage::<T>::uninitialized(numel)
Storage_uninitialized(numel, T, dbg, al) ==
    LET size == align_to(numel, T.size, ALIGN, dbg) IN
    IF size = PANIC THEN Panicked("overflow", <<>>)
    ELSE IF size # 0 /\ ~Layout_from_size_align(size, ALIGN) THEN Panicked("layout", <<>>)
    ELSE IF size # 0 /\ ~al.ok
    THEN Panicked("allcation failed.", <<Allocate(al, size, ALIGN)>>)
    ELSE LET allocs == IF size = 0 THEN <<>> ELSE <<Allocate(al, size, ALIGN)>>
             \* NonNull::dangling() is at align_of::<T>()
             ptr == IF size = 0 THEN T.align ELSE Allocate(al, size, ALIGN).ptr
             p == pad_zeros(allocate(size), numel, T.size, size, dbg)
         IN  IF p.panic THEN Panicked("pad_zeros", allocs)
             ELSE Returned([kind |-> "Storage", numel |-> numel, tsize |-> T.size,
                            size |-> size, align |-> ALIGN, mem |-> p.mem,
                            writes |-> p.writes, allocated |-> (size # 0),
                            ub |-> p.ub, ptr |-> ptr, allocator |-> "Global"],
                           allocs)

----------------------------------------------------------------------------
(* Spec: one construction per run, from the builders or from Storage.      *)

\* No Storage value is in play under Spec.
StIdle ==
    /\ Ty = [name |-> "none"]
    /\ stores = <<>>
    /\ heap = <<>>
    /\ nextId = 1
    /\ log = EmptyBag
    /\ last = [op |-> "none"]
    /\ ubs = {}
    /\ run = TRUE
    /\ ops = 0
    /\ tensors = <<>>

Init ==
    /\ build \in [debug : BOOLEAN, target : Targets]
    /\ builder = NoBuilder
    /\ req = NoReq
    /\ obj = NoObj
    /\ phase = "idle"
    /\ allocCalls = <<>>
    /\ deallocCalls = <<>>
    /\ StIdle

\* What a construction leaves behind.  A construction that ran into
\* undefined behaviour (obj.ub) either carries on or brings the process down.
Constructed(r, q, cont) ==
    /\ req' = q
    /\ allocCalls' = allocCalls \o r.allocs
    /\ builder' = NoBuilder
    /\ IF r.outcome = "panic"
       THEN phase' = "panicked" /\ obj' = NoObj
       ELSE IF r.obj.ub /\ ~cont
       THEN phase' = "aborted" /\ obj' = NoObj
       ELSE phase' = "built" /\ obj' = r.obj
    /\ last' = [op |-> "construct", res |-> r.outcome, why |-> r.why]
    /\ UNCHANGED <<build, deallocCalls>>
    /\ UNCHANGED <<Ty, stores, heap, nextId, log, ubs, run, ops, tensors>>

\* BufferBuilder::new(numel) of src/memory/buffer.rs
BufferBuilder_new ==
    /\ phase = "idle" /\ builder = NoBuilder
    /\ \E numel \in NumelInputs :
          builder' = [impl |-> "policy", numel |-> numel, I |-> "Uninitialized",
                      A |-> [kind |-> "simd", ALIGN |-> 0]]
    /\ UNCHANGED <<build, req, obj, phase, allocCalls, deallocCalls>>
    /\ UNCHANGED <<svars, tensors>>

\* BufferBuilder::zeroed(self)
BufferBuilder_zeroed ==
    /\ phase = "idle" /\ builder.impl = "policy"
    /\ builder' = [impl |-> "policy", numel |-> builder.numel, I |-> "Zeroed",
                   A |-> builder.A]
    /\ UNCHANGED <<build, req, obj, phase, allocCalls, deallocCalls>>
    /\ UNCHANGED <<svars, tensors>>

\* BufferBuilder::with_alignment::<ALIGN>(self)
BufferBuilder_with_alignment ==
    /\ phase = "idle" /\ builder.impl = "policy"
    /\ \E a \in AlignInputs :
          builder' = [impl |-> "policy", numel |-> builder.numel, I |-> builder.I,
                      A |-> [kind |-> "custom", ALIGN |-> a]]
    /\ UNCHANGED <<build, req, obj, phase, allocCalls, deallocCalls>>
    /\ UNCHANGED <<svars, tensors>>

\* BufferBuilder::build::<T, Alloc>(self, alloc)
BufferBuilder_build ==
    /\ phase = "idle" /\ builder.impl = "policy"
    /\ \E T \in BufTypes, al \in AllocOutcomes(Allocators) :
          Constructed(
            Buffer_with_alignment(builder.numel, T, builder.I, builder.A,
                                  build.debug, build.target, al),
            [ctor |-> "Buffer", numel |-> builder.numel, T |-> T,
             I |-> builder.I, A |-> builder.A], TRUE)

\* BufferBuilder::new(numel) of src/buffer.rs; align_of::<()>() is 1.
RcBufferBuilder_new ==
    /\ phase = "idle" /\ builder = NoBuilder
    /\ \E numel \in NumelInputs :
          builder' = [impl |-> "rc", numel |-> numel, zeroed |-> FALSE, align |-> 1,
                      asked |-> 0]
    /\ UNCHANGED <<build, req, obj, phase, allocCalls, deallocCalls>>
    /\ UNCHANGED <<svars, tensors>>

\* BufferBuilder::zeroed(self, z)
RcBufferBuilder_zeroed ==
    /\ phase = "idle" /\ builder.impl = "rc"
    /\ \E z \in BOOLEAN : builder' = [builder EXCEPT !.zeroed = z]
    /\ UNCHANGED <<build, req, obj, phase, allocCalls, deallocCalls>>
    /\ UNCHANGED <<svars, tensors>>

\* BufferBuilder::with_alignment(self, align).  asked is not a field of the
\* builder: it remembers the value the caller passed last, 0 before any call.
RcBufferBuilder_with_alignment ==
    /\ phase = "idle" /\ builder.impl = "rc"
    /\ \E a \in AlignInputs : builder' = [builder EXCEPT !.align = a, !.asked = a]
    /\ UNCHANGED <<build, req, obj, phase, allocCalls, deallocCalls>>
    /\ UNCHANGED <<svars, tensors>>

\* BufferBuilder::build::<T, A>(self, alloc)
RcBufferBuilder_build ==
    /\ phase = "idle" /\ builder.impl = "rc"
    /\ \E T \in BufTypes, al \in AllocOutcomes(Allocators), cont \in BOOLEAN :
          LET align == RcBufferBuilder_build_align(builder, T, build.target)
              q == [ctor |-> "RcBuffer", numel |-> builder.numel, T |-> T,
                    zeroed |-> builder.zeroed, align |-> builder.align,
                    asked |-> builder.asked]
          IN  IF align = PANIC
              THEN Constructed(Panicked("alignment", <<>>), q, cont)
              ELSE Constructed(
                     RcBuffer_with_alignment(builder.numel, T, align, builder.zeroed,
                                             build.debug, al), q, cont)

\* Storage::<T>::uninitialized(numel)
StorageUninitialized ==
    /\ phase = "idle" /\ builder = NoBuilder
    /\ \E numel \in NumelInputs, T \in BufTypes, al \in AllocOutcomes({"Global"}),
          cont \in BOOLEAN :
          Constructed(Storage_uninitialized(numel, T, build.debug, al),
                      [ctor |-> "Storage", numel |-> numel, T |-> T], cont)

\* A drop that hands the allocator the bytes asked for, not the layout.
Drop_deallocate_unpadded(o) ==
    <<Call(o.allocator, o.ptr, o.numel * o.tsize, o.align)>>

\* self.allocator.deallocate(self.ptr.cast(), self.layout())
Drop_deallocate(o) ==
    <<Call(o.allocator, o.ptr, o.size, o.align)>>

\* impl Drop for Buffer (both implementations): one deallocate call.
Buffer_drop ==
    /\ phase = "built" /\ obj.kind \in {"Buffer", "RcBuffer"}
    /\ deallocCalls' = deallocCalls \o Drop_deallocate(obj)
    /\ phase' = "dropped"
    /\ UNCHANGED <<build, builder, req, obj, allocCalls>>
    /\ UNCHANGED <<svars, tensors>>

\* as_ptr / as_mut_ptr of a Buffer or a Storage: self.ptr.as_ptr()
Buffer_as_ptr ==
    /\ phase = "built"
    /\ \E f \in {"as_ptr", "as_mut_ptr"} :
          last' = [op |-> f, val |-> obj.ptr, aux |-> 0]
    /\ UNCHANGED <<bvars, tensors>>
    /\ UNCHANGED <<Ty, stores, heap, nextId, log, ubs, run, ops, tensors>>

\* The other getters of a Buffer: layout(), allocated_size_bytes(),
\* allocated_capacity(), numel().
Buffer_getter ==
    /\ phase = "built" /\ obj.kind \in {"Buffer", "RcBuffer"}
    /\ \/ last' = [op |-> "layout", val |-> obj.size, aux |-> obj.align]
       \/ last' = [op |-> "allocated_size_bytes", val |-> obj.size, aux |-> 0]
       \/ last' = [op |-> "allocated_capacity", val |-> obj.size \div obj.tsize,
                   aux |-> 0]
       \/ last' = [op |-> "numel", val |-> obj.numel, aux |-> 0]
    /\ UNCHANGED <<bvars, tensors>>
    /\ UNCHANGED <<Ty, stores, heap, nextId, log, ubs, run, ops, tensors>>

Next ==
    \/ BufferBuilder_new
    \/ BufferBuilder_zeroed
    \/ BufferBuilder_with_alignment
    \/ BufferBuilder_build
    \/ RcBufferBuilder_new
    \/ RcBufferBuilder_zeroed
    \/ RcBufferBuilder_with_alignment
    \/ RcBufferBuilder_build
    \/ StorageUninitialized
    \/ Buffer_as_ptr
    \/ Buffer_getter
    \/ Buffer_drop

Spec == Init /\ [][Next]_vars

----------------------------------------------------------------------------
(* SpecSt: Storage<T> at element level.                                    *)
(*                                                                         *)
(* A value of T is [id, val]: val is what reading it yields, id names the  *)
(* resource it owns (0 for a type without drop glue).  A bitwise copy of a *)
(* value has the same id; T's destructor releases the resource, and a      *)
(* value whose resource was released reads as anything.  Containers are    *)
(* passed by value (Vec<T>), as every caller in the crate does.            *)

MaxLen == 2

MaxPayload == 2

MaxOps == 4

ElemTypes ==
    { [name |-> "f32",         size |-> 4,  needs_drop |-> FALSE, copy |-> TRUE],
      [name |-> "DropTracker", size |-> 16, needs_drop |-> TRUE,  copy |-> FALSE],
      [name |-> "()",          size |-> 0,  needs_drop |-> FALSE, copy |-> TRUE] }

\* What reading a T can yield; 0 is none of the values a caller stored.
Payloads == IF Ty.size = 0 THEN {1} ELSE 1..MaxPayload

Garbage == Payloads \cup {0}

PaySeqs == UNION {[1..n -> Payloads] : n \in 0..MaxLen}

\* A slot of the allocation that no value was ever written to.
UNINIT == [id |-> 0 - 1, val |-> 0]

\* A zero-sized T has no bytes to initialize.
InitialSlot == IF Ty.size = 0 THEN [id |-> 0, val |-> 1] ELSE UNINIT

Ev(ev, a, b) == [ev |-> ev, a |-> a, b |-> b]

\* How often T's destructor has run on the value with identity id.
DtorRuns(id) == CopiesIn(Ev("dtor", id, 0), log)

Deallocs(r) == CopiesIn(Ev("dealloc", r, 0), log)

\* The events of the sequence evs, added to the bag of events so far.
Logged(evs) ==
    log (+) [e \in {evs[i] : i \in DOMAIN evs} |->
                Cardinality({i \in DOMAIN evs : evs[i] = e})]

IsInit(v) == v # UNINIT

Destroyed(v) == v.id > 0 /\ DtorRuns(v.id) > 0

Valid(v) == IsInit(v) /\ ~Destroyed(v)

\* Reading a slot as T: its value, or anything when the slot is
\* uninitialized or its value was destroyed.
ReadVals(v) == IF Valid(v) THEN {v.val} ELSE Garbage

ReadUB(v) ==
    IF ~IsInit(v) THEN {"read_uninit"}
    ELSE IF Destroyed(v) THEN {"read_destroyed"} ELSE {}

ReadSeqs(slots) ==
    {out \in [1..Len(slots) -> Garbage] : \A i \in 1..Len(slots) : out[i] \in ReadVals(slots[i])}

\* The values a caller makes from the payloads ps: fresh identities.
Fresh(ps) ==
    [i \in 1..Len(ps) |->
        [id |-> IF Ty.needs_drop THEN nextId + i - 1 ELSE 0, val |-> ps[i]]]

IdsFor(n) == IF Ty.needs_drop THEN n ELSE 0

\* Dropping a Vec<T>: T's destructor on each element, in order.
Vec_drop(s) ==
    IF Ty.needs_drop THEN [i \in 1..Len(s) |-> Ev("dtor", s[i].id, 0)] ELSE <<>>

\* Storage::with_container(&mut self, container), on the slots of self.
with_container(slots, s) ==
    LET slice_size == Len(s)
        tensor_capacity == Len(slots)
    IN  IF slice_size # tensor_capacity
        THEN [res |-> "MemoryViolation", slots |-> slots]
        ELSE [res |-> "Ok", slots |-> s]       \* copy_nonoverlapping

\* A Storage value as the caller holds it; src and filled remember the
\* sequence it was filled from while no write has changed it.
NewStore(r, n, size) ==
    [region |-> r, len |-> n, size |-> size, live |-> TRUE,
     fresh |-> TRUE, filled |-> FALSE, src |-> <<>>, mismatch |-> FALSE]

\* An uninitialized that calls the allocator for a layout of size 0 too.
NewRegion_always(n, size) ==
    [slots |-> [i \in 1..n |-> InitialSlot], allocated |-> TRUE]

\* The memory behind a new Storage: allocated unless the layout is empty
\* (the pointer is then NonNull::dangling()).
NewRegion(n, size) ==
    [slots |-> [i \in 1..n |-> InitialSlot], allocated |-> (size # 0)]

StInit ==
    /\ build = [debug |-> FALSE, target |-> "other"]
    /\ builder = NoBuilder
    /\ req = NoReq
    /\ obj = NoObj
    /\ phase = "idle"
    /\ allocCalls = <<>>
    /\ deallocCalls = <<>>
    /\ Ty \in ElemTypes
    /\ stores = <<>>
    /\ heap = <<>>
    /\ nextId = 1
    /\ log = EmptyBag
    /\ last = [op |-> "none"]
    /\ ubs = {}
    /\ run = TRUE
    /\ ops = 0
    /\ tensors = <<>>

\* One more Storage operation, while the process runs.
Step == run /\ ops < MaxOps /\ ops' = ops + 1

\* storage.len()
Storage_len(st) == st.len

LiveStores == {h \in DOMAIN stores : stores[h].live}

\* Storage::<T>::uninitialized(numel), allocation succeeding.
St_uninitialized ==
    /\ Step
    /\ \E n \in 0..MaxLen :
          LET size == align_to(n, Ty.size, ALIGN, FALSE) IN
          /\ stores' = Append(stores, NewStore(Len(heap) + 1, n, size))
          /\ heap' = Append(heap, NewRegion(n, size))
          /\ last' = [op |-> "uninitialized", h |-> Len(stores) + 1]
    /\ UNCHANGED <<Ty, nextId, log, ubs, run>>
    /\ UNCHANGED <<bvars, tensors>>

\* Storage::new(container): uninitialized(len), then with_container; the
\* container is dropped when with_container returns.
St_new ==
    /\ Step
    /\ \E ps \in PaySeqs :
          LET s    == Fresh(ps)
              n    == Len(ps)
              size == align_to(n, Ty.size, ALIGN, FALSE)
              wc   == with_container(NewRegion(n, size).slots, s)
              st   == NewStore(Len(heap) + 1, n, size)
          IN  /\ nextId' = nextId + IdsFor(n)
              /\ log' = Logged(Vec_drop(s))
              /\ heap' = Append(heap, [NewRegion(n, size) EXCEPT !.slots = wc.slots])
              /\ stores' = Append(stores,
                    [st EXCEPT !.fresh = FALSE, !.filled = (wc.res = "Ok"), !.src = ps])
              /\ last' = [op |-> "new", h |-> Len(stores) + 1, res |-> wc.res,
                          m |-> n]
    /\ UNCHANGED <<Ty, ubs, run>>
    /\ UNCHANGED <<bvars, tensors>>

\* storage.with_container(container) on a Storage made by uninitialized.
St_with_container ==
    /\ Step
    /\ \E h \in LiveStores, ps \in PaySeqs :
          LET s  == Fresh(ps)
              r  == stores[h].region
              wc == with_container(heap[r].slots, s)
          IN  /\ stores[h].fresh
              /\ nextId' = nextId + IdsFor(Len(ps))
              /\ log' = Logged(Vec_drop(s))
              /\ heap' = [heap EXCEPT ![r].slots = wc.slots]
              /\ stores' = [stores EXCEPT
                    ![h].fresh = (wc.res # "Ok"),
                    ![h].filled = (wc.res = "Ok"),
                    ![h].src = IF wc.res = "Ok" THEN ps ELSE <<>>,
                    ![h].mismatch = (wc.res # "Ok")]
              /\ last' = [op |-> "with_container", h |-> h, res |-> wc.res,
                          m |-> Len(ps), c |-> stores[h].len,
                          before |-> heap[r].slots]
    /\ UNCHANGED <<Ty, ubs, run>>
    /\ UNCHANGED <<bvars, tensors>>

\* storage.direct_write(offset, val) with offset < len, as its contract asks.
St_direct_write ==
    /\ Step
    /\ \E h \in LiveStores, p \in Payloads :
          \E i \in 1..stores[h].len :
             LET r == stores[h].region IN
             /\ nextId' = nextId + IdsFor(1)
             /\ heap' = [heap EXCEPT ![r].slots[i] = Fresh(<<p>>)[1]]
             /\ stores' = [stores EXCEPT ![h].fresh = FALSE, ![h].filled = FALSE]
             /\ last' = [op |-> "direct_write", h |-> h, offset |-> i - 1,
                         before |-> heap]
    /\ UNCHANGED <<Ty, log, ubs, run>>
    /\ UNCHANGED <<bvars, tensors>>

\* storage.direct_read(offset)
St_direct_read ==
    /\ Step
    /\ \E h \in LiveStores, offset \in 0..MaxLen :
          IF offset >= stores[h].len
          THEN /\ last' = [op |-> "direct_read", h |-> h, offset |-> offset,
                           res |-> "panic", val |-> 0]
               /\ ubs' = ubs
          ELSE LET v == heap[stores[h].region].slots[offset + 1] IN
               /\ \E x \in ReadVals(v) :
                     last' = [op |-> "direct_read", h |-> h, offset |-> offset,
                              res |-> "ok", val |-> x]
               /\ ubs' = ubs \cup ReadUB(v)
    /\ UNCHANGED <<Ty, stores, heap, nextId, log, run>>
    /\ UNCHANGED <<bvars, tensors>>

\* storage.as_slice(), called as its contract asks (every element was
\* initialized), and the elements read through it.
St_as_slice ==
    /\ Step
    /\ \E h \in LiveStores :
          LET slots == heap[stores[h].region].slots IN
          /\ \A i \in 1..Len(slots) : IsInit(slots[i])
          /\ \E out \in ReadSeqs(slots) :
                last' = [op |-> "as_slice", h |-> h, out |-> out]
          /\ ubs' = ubs \cup UNION {ReadUB(slots[i]) : i \in 1..Len(slots)}
    /\ UNCHANGED <<Ty, stores, heap, nextId, log, run>>
    /\ UNCHANGED <<bvars, tensors>>

\* <Storage<T> as Drop>::drop on the slots of region r: drop_in_place on
\* each of the len slots, whatever was written to them.
drop_in_place(v, r, i) ==
    IF IsInit(v) THEN Ev("dtor", v.id, 0) ELSE Ev("dtor_uninit", r, i)

\* drop_in_place on a slot holding no live T is undefined behaviour.
DropUB(v) ==
    IF ~IsInit(v) THEN {"drop_uninit"}
    ELSE IF Destroyed(v) THEN {"double_drop"} ELSE {}

Storage_drop_events(st) ==
    LET slots == heap[st.region].slots IN
    IF st.size = 0 \/ ~Ty.needs_drop THEN <<>>
    ELSE [i \in 1..st.len |-> drop_in_place(slots[i], st.region, i)]

Storage_drop_ub(st) ==
    LET slots == heap[st.region].slots IN
    IF st.size = 0 \/ ~Ty.needs_drop THEN {}
    ELSE UNION {DropUB(slots[i]) : i \in 1..st.len}

\* The first slot whose drop_in_place is undefined, 0 if there is none.
FirstBad(st) ==
    LET slots == heap[st.region].slots
        bad == {i \in 1..st.len : DropUB(slots[i]) # {}}
    IN  IF bad = {} THEN 0 ELSE CHOOSE i \in bad : \A j \in bad : i <= j

\* A Storage that was dropped, and the memory dealloc gave back.
Dropped(st) ==
    [st EXCEPT !.live = FALSE, !.fresh = FALSE, !.filled = FALSE, !.src = <<>>,
               !.mismatch = FALSE]

Freed == [slots |-> <<>>, allocated |-> FALSE]

DtorsIn(evs) ==
    Cardinality({i \in DOMAIN evs : evs[i].ev \in {"dtor", "dtor_uninit"}})

\* drop(storage).  Where drop_in_place is undefined the process either
\* carries on to dealloc or dies at that slot.
St_drop ==
    /\ Step
    /\ \E h \in LiveStores, cont \in BOOLEAN :
          LET st   == stores[h]
              evs  == Storage_drop_events(st)
              ub   == Storage_drop_ub(st)
              k    == Cardinality({i \in 1..st.len : IsInit(heap[st.region].slots[i])})
              done == IF ub # {} /\ ~cont THEN SubSeq(evs, 1, FirstBad(st)) ELSE evs
              dead == ub # {} /\ ~cont
              rel  == IF st.size = 0 \/ dead THEN <<>> ELSE <<Ev("dealloc", st.region, 0)>>
          IN  /\ (ub = {}) => cont
              /\ log' = Logged(done \o rel)
              /\ ubs' = ubs \cup ub
              /\ run' = ~dead
              /\ stores' = [stores EXCEPT ![h] = Dropped(st)]
              /\ heap' = IF Len(rel) = 0 THEN heap
                         ELSE [heap EXCEPT ![st.region] = Freed]
              /\ last' = [op |-> "drop", h |-> h, k |-> k, numel |-> st.len,
                          size |-> st.size, drops |-> DtorsIn(done),
                          deallocs |-> Len(rel), mismatch |-> st.mismatch,
                          events |-> done \o rel,
                          slots |-> heap[st.region].slots,
                          live |-> [i \in 1..st.len |->
                                      Valid(heap[st.region].slots[i])],
                          res |-> IF dead THEN "aborted" ELSE "ok"]
    /\ UNCHANGED <<Ty, nextId>>
    /\ UNCHANGED <<bvars, tensors>>

\* storage.copy_storage(), T: Copy
St_copy_storage ==
    /\ Step /\ Ty.copy
    /\ \E h \in LiveStores :
          LET st   == stores[h]
              n    == st.len
              size == align_to(n, Ty.size, ALIGN, FALSE)
              src  == heap[st.region].slots
          IN  /\ stores' = Append(stores,
                    [NewStore(Len(heap) + 1, n, size) EXCEPT !.fresh = FALSE])
              /\ heap' = Append(heap,
                    [NewRegion(n, size) EXCEPT !.slots = IF n = 0 THEN <<>> ELSE src])
              /\ last' = [op |-> "copy_storage", h |-> Len(stores) + 1, src |-> h,
                          res |-> "ok", j |-> n, firstId |-> nextId, before |-> heap,
                          storesBefore |-> stores, logBefore |-> log]
    /\ UNCHANGED <<Ty, nextId, log, ubs, run>>
    /\ UNCHANGED <<bvars, tensors>>

\* A to_vec without its drop guard: the clones made before the panic leak.
to_vec_leak(clones) == <<>>

\* What slice::to_vec does with the clones it made when T::clone panics:
\* its guard drops them.
to_vec_unwind(clones) == Vec_drop(clones)

\* The clones of the first j elements of slots, for the values vals that the
\* elements read as.
Clones(vals, j) ==
    [i \in 1..j |-> [id |-> IF Ty.needs_drop THEN nextId + i - 1 ELSE 0, val |-> vals[i]]]

\* storage.clone_storage(), T: Clone.  j elements are cloned; j < len means
\* that the clone of element j + 1 panicked, which a Copy type's clone
\* never does.
St_clone_storage ==
    /\ Step
    /\ \E h \in LiveStores :
          LET st  == stores[h]
              n   == st.len
              src == heap[st.region].slots
              common == [op |-> "clone_storage", src |-> h, firstId |-> nextId,
                         before |-> heap, storesBefore |-> stores,
                         logBefore |-> log]
          IN
          IF n = 0
          THEN LET size == align_to(n, Ty.size, ALIGN, FALSE) IN
               /\ stores' = Append(stores, NewStore(Len(heap) + 1, n, size))
               /\ heap' = Append(heap, NewRegion(n, size))
               /\ last' = common @@ [h |-> Len(stores) + 1, res |-> "ok", j |-> 0]
               /\ UNCHANGED <<nextId, log, ubs>>
          ELSE \E j \in 0..n : \E vals \in ReadSeqs(SubSeq(src, 1, j)) :
               LET cloned_data == Clones(vals, j)
                   touched == IF j < n THEN j + 1 ELSE n
               IN
               /\ (j < n) => ~Ty.copy
               /\ nextId' = nextId + IdsFor(j)
               /\ ubs' = ubs \cup UNION {ReadUB(src[i]) : i \in 1..touched}
               /\ IF j < n
                  THEN /\ log' = Logged(to_vec_unwind(cloned_data))
                       /\ last' = common @@ [h |-> 0, res |-> "panic", j |-> j]
                       /\ UNCHANGED <<stores, heap>>
                  ELSE LET size == align_to(n, Ty.size, ALIGN, FALSE)
                           wc == with_container(NewRegion(n, size).slots, cloned_data)
                       IN
                       /\ log' = Logged(Vec_drop(cloned_data))
                       /\ heap' = Append(heap,
                             [NewRegion(n, size) EXCEPT !.slots = wc.slots])
                       /\ stores' = Append(stores,
                             [NewStore(Len(heap) + 1, n, size) EXCEPT !.fresh = FALSE])
                       /\ last' = common @@ [h |-> Len(stores) + 1, res |-> "ok", j |-> n]
    /\ UNCHANGED <<Ty, run>>
    /\ UNCHANGED <<bvars, tensors>>

NextSt ==
    \/ St_uninitialized
    \/ St_new
    \/ St_with_container
    \/ St_direct_write
    \/ St_direct_read
    \/ St_as_slice
    \/ St_copy_storage
    \/ St_clone_storage
    \/ St_drop

SpecSt == StInit /\ [][NextSt]_vars

----------------------------------------------------------------------------
(* SpecSh: Shape, Tensorizable and Tensor indexing.  A Shape is the        *)
(* sequence of its dimensions; a Tensor is its Storage and its Shape.      *)

\* The longest Vec / array at each nesting level, and the largest index.
MaxDim == 2

\* The shapes handed to can_broadcast_matmul: up to MaxRank dimensions of
\* 1..MaxExtent.
MaxRank == 4

MaxExtent == 3

\* impl From<&[usize]> for Shape
Shape_from(value) == value

\* The Shape of a tuple of dimensions, (usize, usize).into() and the like.
Shape_from_tuple(value) == Shape_from(value)

\* Shape::ndims
Shape_ndims(self) == Len(self)

RECURSIVE product(_, _, _, _)
product(dims, k, acc, oc) ==
    IF k > Len(dims) THEN acc
    ELSE LET n == umul(acc, dims[k], oc) IN
         IF n = PANIC THEN PANIC ELSE product(dims, k + 1, n, oc)

\* Shape::volume: self.0.iter().product()
Shape_volume(self, oc) == product(self, 1, 1, oc)

\* The try_fold of linear_index from the k-th pair on.  The zip yields
\* (indices[k], self.0[k]) and the closure names the pair (dim, i).
RECURSIVE linear_index_fold(_, _, _, _, _)
linear_index_fold(indices, dims, k, acc, oc) ==
    IF k > Len(indices) \/ k > Len(dims) THEN acc
    ELSE LET dim == indices[k]
             i   == dims[k]
         IN  IF ~(i < dim) THEN PANIC           \* then_some gives None
             ELSE LET m == umul(acc, dim, oc) IN
                  IF m = PANIC THEN PANIC
                  ELSE LET n == uadd(m, i, oc) IN
                       IF n = PANIC THEN PANIC
                       ELSE linear_index_fold(indices, dims, k + 1, n, oc)

\* Shape::linear_index(&self, indices): the offset, or PANIC.
Shape_linear_index(self, indices, dbg) ==
    IF dbg /\ Len(indices) # Shape_ndims(self) THEN PANIC      \* debug_assert_eq!
    ELSE linear_index_fold(indices, self, 1, 0, dbg)

\* The closure dimension of try_broadcast: the i-th dimension of c from the
\* right, 1 where c has none.
dimension(i, c) == IF i + 1 <= Len(c) THEN c[Len(c) - i] ELSE 1

TensorErr(res) == [res |-> res, shape |-> <<>>]

RECURSIVE try_broadcast_loop(_, _, _, _)
try_broadcast_loop(a, b, i, ret) ==
    LET max_len == IF Len(a) >= Len(b) THEN Len(a) ELSE Len(b) IN
    IF i >= max_len THEN [res |-> "Ok", shape |-> ret]
    ELSE LET d1 == dimension(i, a)
             d2 == dimension(i, b)
         IN  IF d1 = 1 THEN try_broadcast_loop(a, b, i + 1, Append(ret, d2))
             ELSE IF d2 = 1 THEN try_broadcast_loop(a, b, i + 1, Append(ret, d1))
             ELSE IF d1 = d2 THEN try_broadcast_loop(a, b, i + 1, Append(ret, d1))
             ELSE TensorErr("Broadcast")

\* try_broadcast(a, b)
try_broadcast(a, b) == try_broadcast_loop(a, b, 0, <<>>)

\* n.saturating_sub(m)
saturating_sub(n, m) == IF n < m THEN 0 ELSE n - m

\* Shape::can_broadcast_matmul(&self, other)
Shape_can_broadcast_matmul(a, b) ==
    IF Len(a) = 0 \/ Len(b) = 0 THEN TensorErr("InvalidOp")
    ELSE LET a_last     == a[saturating_sub(Len(a), 1) + 1]
             b_snd_last == IF Len(b) = 1 THEN b[1] ELSE b[Len(b) - 1]
         IN  IF a_last # b_snd_last THEN TensorErr("InvalidOp")
             ELSE LET output == try_broadcast(
                                   SubSeq(a, 1, saturating_sub(Len(a), 2)),
                                   SubSeq(b, 1, saturating_sub(Len(b), 2)))
                      m == IF Len(a) >= 2 THEN a[Len(a) - 1] ELSE 1
                      n == IF Len(b) >= 2 THEN b[Len(b)] ELSE 1
                  IN  IF output.res # "Ok" THEN output
                      ELSE [res |-> "Ok", shape |-> Shape_from(output.shape \o <<m, n>>)]

\* The nesting levels Tensorizable is implemented for; an index has up to
\* as many entries.
MaxNesting == 3

\* The value a caller puts at plane p, row r, column c of a nested
\* container: each position holds a value of its own.
Tag(p, r, c) == ((p - 1) * MaxDim + (r - 1)) * MaxDim + c

Value(tag) ==
    [id  |-> IF Ty.needs_drop THEN nextId + tag - 1 ELSE 0,
     val |-> IF Ty.size = 0 THEN 1 ELSE tag]

Row(p, r, n) == [c \in 1..n |-> Value(Tag(p, r, c))]

\* Column counts by row, and by plane and row, of the nested Vecs.
Lens2 == UNION {[1..r -> 0..MaxDim] : r \in 0..MaxDim}

Lens3 == UNION {[1..p -> Lens2] : p \in 0..MaxDim}

\* The arguments of Tensor::new: Vec<T>, Vec<Vec<T>>, Vec<Vec<Vec<T>>> of
\* any lengths, and the arrays [T; N], [[T; N1]; N0], [[[T; N2]; N1]; N0].
\* N holds the lengths that an array type carries.
TensorInputs ==
    {[kind |-> "Vec", N |-> <<>>, data |-> Row(1, 1, n)] : n \in 0..MaxDim}
    \cup {[kind |-> "VecVec", N |-> <<>>,
           data |-> [r \in 1..Len(l2) |-> Row(1, r, l2[r])]] : l2 \in Lens2}
    \cup {[kind |-> "VecVecVec", N |-> <<>>,
           data |-> [p \in 1..Len(l3) |->
                       [r \in 1..Len(l3[p]) |-> Row(p, r, l3[p][r])]]] : l3 \in Lens3}
    \cup {[kind |-> "Array", N |-> <<n>>, data |-> Row(1, 1, n)] : n \in 0..MaxDim}
    \cup {[kind |-> "Array2", N |-> <<N0, N1>>,
           data |-> [r \in 1..N0 |-> Row(1, r, N1)]] : N0 \in 0..MaxDim, N1 \in 0..MaxDim}
    \cup {[kind |-> "Array3", N |-> <<N0, N1, N2>>,
           data |-> [p \in 1..N0 |-> [r \in 1..N1 |-> Row(p, r, N2)]]] :
              N0 \in 0..MaxDim, N1 \in 0..MaxDim, N2 \in 0..MaxDim}

\* into_iter().flatten().collect()
RECURSIVE flatten(_)
flatten(vv) == IF vv = <<>> THEN <<>> ELSE Head(vv) \o flatten(Tail(vv))

\* into_iter().flat_map(|v| v.into_iter().flatten()).collect()
flat_map_flatten(vvv) == flatten([p \in 1..Len(vvv) |-> flatten(vvv[p])])

\* Every element of the argument, in the order its drop destroys them.
Elements(inp) ==
    IF inp.kind \in {"Vec", "Array"} THEN inp.data
    ELSE IF inp.kind \in {"VecVec", "Array2"} THEN flatten(inp.data)
    ELSE flat_map_flatten(inp.data)

ToTensorOk(shape, buf) ==
    [res |-> "Ok", shape |-> shape, buf |-> buf, expected |-> <<>>, received |-> <<>>]

\* TensorError::InconsistentDimensions { expected, received }
InconsistentDimensions(expected, received) ==
    [res |-> "InconsistentDimensions", shape |-> <<>>, buf |-> <<>>,
     expected |-> Shape_from_tuple(expected), received |-> Shape_from_tuple(received)]

Least(S) == CHOOSE x \in S : \A y \in S : x <= y

\* <Vec<T> as Tensorizable>::to_tensor, <[T; N] as Tensorizable>::to_tensor
Vec_to_tensor(self) == ToTensorOk(Shape_from_tuple(<<Len(self)>>), self)

\* <Vec<Vec<T>> as Tensorizable>::to_tensor, up to the Storage
VecVec_to_tensor(self) ==
    LET dim0 == Len(self)
        dim1 == IF Len(self) = 0 THEN 0 ELSE Len(self[1])
        odd  == {k \in 1..Len(self) : Len(self[k]) # dim1}
    IN  IF odd # {}
        THEN InconsistentDimensions(<<Len(self), dim1>>,
                                    <<Len(self), Len(self[Least(odd)])>>)
        ELSE ToTensorOk(Shape_from_tuple(<<dim0, dim1>>), flatten(self))

\* check_vec_3d(data)
check_vec_3d(data) ==
    IF Len(data) = 0 THEN ToTensorOk(Shape_from_tuple(<<0, 0, 0>>), <<>>)
    ELSE LET planes           == Len(data)
             expected_rows    == Len(data[1])
             expected_columns == IF Len(data[1]) = 0 THEN 0 ELSE Len(data[1][1])
             oddRows(p) == {r \in 1..Len(data[p]) : Len(data[p][r]) # expected_columns}
             odd == {p \in 1..planes : Len(data[p]) # expected_rows \/ oddRows(p) # {}}
             expected == <<planes, expected_rows, expected_columns>>
         IN  IF odd = {} THEN ToTensorOk(Shape_from_tuple(expected), <<>>)
             ELSE LET p == Least(odd)
                      actual_rows == Len(data[p])
                  IN  IF actual_rows # expected_rows
                      THEN InconsistentDimensions(expected,
                              <<planes, actual_rows, expected_columns>>)
                      ELSE InconsistentDimensions(expected,
                              <<planes, actual_rows, Len(data[p][Least(oddRows(p))])>>)

\* <Vec<Vec<Vec<T>>> as Tensorizable>::to_tensor, up to the Storage
VecVecVec_to_tensor(self) ==
    LET shape == check_vec_3d(self) IN
    IF shape.res # "Ok" THEN shape
    ELSE ToTensorOk(shape.shape, flat_map_flatten(self))

\* <[[T; N1]; N0] as Tensorizable>::to_tensor, up to the Storage
Array2_to_tensor(self, N0, N1) ==
    ToTensorOk(Shape_from_tuple(<<N0, N1>>), flatten(self))

\* <[[[T; N2]; N1]; N0] as Tensorizable>::to_tensor, up to the Storage
Array3_to_tensor(self, N0, N1, N2) ==
    ToTensorOk(Shape_from_tuple(<<N0, N1, N2>>), flat_map_flatten(self))

\* data.to_tensor(), by the impl the argument's type selects.
to_tensor(inp) ==
    IF inp.kind \in {"Vec", "Array"} THEN Vec_to_tensor(inp.data)
    ELSE IF inp.kind = "VecVec" THEN VecVec_to_tensor(inp.data)
    ELSE IF inp.kind = "VecVecVec" THEN VecVecVec_to_tensor(inp.data)
    ELSE IF inp.kind = "Array2" THEN Array2_to_tensor(inp.data, inp.N[1], inp.N[2])
    ELSE Array3_to_tensor(inp.data, inp.N[1], inp.N[2], inp.N[3])

\* Tensor::from_raw(storage, shape, requires_grad, None)
Tensor_from_raw(storage, shape, requires_grad) ==
    [storage |-> storage, shape |-> shape, requires_grad |-> requires_grad]

\* tensor.len()
Tensor_len(t) == Storage_len(stores[t.storage])

\* A container of n elements of T exists in this machine's memory, and so
\* does the Storage of as many.
Fits(n) == n * Ty.size + ALIGN - 1 <= ISIZE_MAX

\* The element types are those that occupy memory: a zero-sized T has one
\* value only and no position to tell apart.
ShInit ==
    /\ build \in [debug : BOOLEAN, target : {"other"}]
    /\ builder = NoBuilder
    /\ req = NoReq
    /\ obj = NoObj
    /\ phase = "idle"
    /\ allocCalls = <<>>
    /\ deallocCalls = <<>>
    /\ Ty \in {T \in ElemTypes : T.size # 0}
    /\ stores = <<>>
    /\ heap = <<>>
    /\ nextId = 1
    /\ log = EmptyBag
    /\ last = [op |-> "none"]
    /\ ubs = {}
    /\ run = TRUE
    /\ ops = 0
    /\ tensors = <<>>

\* Tensor::new(data): data.to_tensor().  On Ok the flat buffer goes to
\* Storage::new, which drops it after the copy; on Err the argument is
\* dropped as it is.
Tensor_new ==
    /\ last.op = "none" /\ tensors = <<>>
    /\ \E inp \in TensorInputs :
          LET r    == to_tensor(inp)
              n    == Len(r.buf)
              size == align_to(n, Ty.size, ALIGN, build.debug)
              wc   == with_container(NewRegion(n, size).slots, r.buf)
              st   == NewStore(Len(heap) + 1, n, size)
          IN  /\ Fits(Len(Elements(inp)))
              /\ nextId' = nextId + IdsFor(MaxDim * MaxDim * MaxDim)
              /\ last' = [op |-> "new", kind |-> inp.kind, data |-> inp.data,
                          N |-> inp.N, res |-> r.res, buf |-> r.buf]
              /\ IF r.res = "Ok"
                 THEN /\ log' = Logged(Vec_drop(r.buf))
                      /\ heap' = Append(heap, [NewRegion(n, size) EXCEPT !.slots = wc.slots])
                      /\ stores' = Append(stores,
                            [st EXCEPT !.fresh = FALSE, !.filled = (wc.res = "Ok")])
                      /\ tensors' = Append(tensors,
                            Tensor_from_raw(Len(stores) + 1, r.shape, FALSE))
                 ELSE /\ log' = Logged(Vec_drop(Elements(inp)))
                      /\ UNCHANGED <<stores, heap, tensors>>
    /\ UNCHANGED <<Ty, ubs, run, ops>>
    /\ UNCHANGED bvars

\* The index arrays handed to tensor[[..]].
IndexInputs == UNION {[1..D -> 0..(MaxDim + 1)] : D \in 0..MaxNesting}

\* <Tensor<T> as Index<[usize; D]>>::index: linear_index, then
\* Storage::direct_read with its bounds assertion.  Indexing leaves the
\* tensor as it is, so one indexing per run shows all it does.
Tensor_index ==
    /\ last.op = "new"
    /\ \E t \in DOMAIN tensors, index \in IndexInputs :
          LET st == stores[tensors[t].storage]
              linear_index == Shape_linear_index(tensors[t].shape, index, build.debug)
              here == [op |-> "index", t |-> t, index |-> index, offset |-> linear_index]
          IN  IF linear_index = PANIC \/ linear_index >= Storage_len(st)
              THEN /\ last' = here @@ [res |-> "panic", val |-> 0]
                   /\ ubs' = ubs
              ELSE LET v == heap[st.region].slots[linear_index + 1] IN
                   /\ \E x \in ReadVals(v) : last' = here @@ [res |-> "ok", val |-> x]
                   /\ ubs' = ubs \cup ReadUB(v)
    /\ UNCHANGED <<Ty, stores, heap, nextId, log, run, ops, tensors>>
    /\ UNCHANGED bvars

\* <Tensor<T> as IndexMut<[usize; D]>>::index_mut: linear_index, then
\* &mut *as_mut_ptr().add(linear_index) with no further test.  A reference
\* to bytes outside the allocation is undefined behaviour.
Tensor_index_mut ==
    /\ last.op = "new"
    /\ \E t \in DOMAIN tensors, index \in IndexInputs :
          LET st == stores[tensors[t].storage]
              linear_index == Shape_linear_index(tensors[t].shape, index, build.debug)
              here == [op |-> "index_mut", t |-> t, index |-> index,
                       offset |-> linear_index, val |-> 0]
          IN  IF linear_index = PANIC
              THEN /\ last' = here @@ [res |-> "panic"]
                   /\ ubs' = ubs
              ELSE /\ last' = here @@ [res |-> "ok"]
                   /\ ubs' = ubs \cup
                         IF (linear_index + 1) * Ty.size > st.size
                         THEN {"reference_out_of_bounds"} ELSE {}
    /\ UNCHANGED <<Ty, stores, heap, nextId, log, run, ops, tensors>>
    /\ UNCHANGED bvars

\* The shapes handed to can_broadcast_matmul.
ShapeInputs == UNION {[1..n -> 1..MaxExtent] : n \in 0..MaxRank}

\* a.can_broadcast_matmul(&b)
Shape_matmul ==
    /\ last.op = "none" /\ tensors = <<>>
    /\ \E a \in ShapeInputs, b \in ShapeInputs :
          last' = [op |-> "can_broadcast_matmul", a |-> a, b |-> b,
                   out |-> Shape_can_broadcast_matmul(a, b)]
    /\ UNCHANGED <<Ty, stores, heap, nextId, log, ubs, run, ops, tensors>>
    /\ UNCHANGED bvars

NextSh ==
    \/ Tensor_new
    \/ Tensor_index
    \/ Tensor_index_mut
    \/ Shape_matmul

SpecSh == ShInit /\ [][NextSh]_vars

----------------------------------------------------------------------------
(* Claims about construction, checked under Spec.                          *)

\* The bytes the caller asked for, and the padding behind them.
Requested == req.numel * req.T.size

PaddingBytes == {i \in DOMAIN obj.mem : i >= Requested}

\* C1: every construction that returns (either Buffer with numel > 0, a
\* non-zero-sized T and a power-of-two alignment; Storage::uninitialized)
\* stores a layout whose size is the smallest multiple of the alignment that
\* is >= numel * size_of(T).
C1_LayoutCoversRequest ==
    phase = "built" =>
        /\ obj.size >= Requested
        /\ obj.size % obj.align = 0
        /\ obj.size < Requested + obj.align

\* C2: in a Buffer of src/memory/buffer.rs, for every numel > 0, element
\* size, alignment policy and init policy, in debug and release builds,
\* every byte at an offset in [numel * size_of(T), allocated_size_bytes())
\* is zero right after construction.
C2_PolicyBufferPaddingZero ==
    (phase = "built" /\ obj.kind = "Buffer") =>
        \A i \in PaddingBytes : obj.mem[i] = 0

\* C2 witness: a debug build returned an Uninitialized Buffer of 3 four-byte
\* elements under 32-byte alignment: 20 padding bytes behind poisoned ones.
C2_Witness ==
    /\ phase = "built" /\ obj.kind = "Buffer" /\ build.debug
    /\ req.I = "Uninitialized" /\ req.numel = 3 /\ req.T.size = 4
    /\ obj.size = 32 /\ Cardinality(PaddingBytes) = 20
    /\ obj.mem[11] = POISON

\* C3: after Storage::uninitialized(numel), for every numel and every T,
\* every byte at an offset in [numel * size_of(T), layout.size()) is zero.
C3_StoragePaddingZero ==
    (phase = "built" /\ obj.kind = "Storage") =>
        \A i \in PaddingBytes : obj.mem[i] = 0

\* C4: a Buffer of src/buffer.rs built in a debug build, zeroed or not, has
\* the poison 0xAB only in [0, numel * size_of(T)) and zero in every padding
\* byte.
C4_RcBufferPoisonOnlyData ==
    (phase = "built" /\ obj.kind = "RcBuffer" /\ build.debug) =>
        \A i \in PaddingBytes : obj.mem[i] = 0 /\ obj.mem[i] # POISON

----------------------------------------------------------------------------
(* Claims about the lifetime of a Buffer, checked under Spec.              *)

Buffers == {"Buffer", "RcBuffer"}

\* C11: a Buffer that was constructed keeps the pointer and layout that
\* its one allocate call returned and the numel asked for, through every
\* operation on it; dropping it makes exactly one deallocate call, on the
\* allocator that served the allocation, with that pointer and layout, and
\* runs no element destructor.
C11_BufferReleasedOnce ==
    obj.kind \in Buffers =>
        /\ Len(allocCalls) = 1
        /\ obj.ptr = allocCalls[1].ptr
        /\ obj.size = allocCalls[1].size
        /\ obj.align = allocCalls[1].align
        /\ obj.numel = req.numel
        /\ phase = "built" => deallocCalls = <<>>
        /\ phase = "dropped" => deallocCalls = <<allocCalls[1]>>
        /\ log = EmptyBag

C11_Witness ==
    /\ phase = "dropped"
    /\ obj.kind = "Buffer"
    /\ last.op = "as_mut_ptr"
    /\ obj.size > obj.numel * obj.tsize
    /\ deallocCalls[1].allocator = "A2"

\* C12: the pointer of a freshly constructed Buffer or Storage (for
\* Storage also with numel = 0 or a zero-sized T) is non-null and at a
\* multiple of the selected alignment, Storage::ALIGN for a Storage, and
\* as_ptr / as_mut_ptr return that address.
C12_PointerAligned ==
    phase = "built" =>
        /\ obj.ptr # 0
        /\ obj.ptr % (IF obj.kind = "Storage" THEN ALIGN ELSE obj.align) = 0
        /\ last.op \in {"as_ptr", "as_mut_ptr"} => last.val = obj.ptr
        /\ allocCalls # <<>> => obj.ptr = allocCalls[1].ptr

\* C13: constructing a Buffer with numel = 0 or a zero-sized T fails on an
\* assertion before any allocator call, so no Buffer with numel = 0 or
\* size_of(T) = 0 exists and nothing is allocated.
C13_EmptyBufferRejected ==
    /\ (req.ctor \in Buffers /\ (req.numel = 0 \/ req.T.size = 0)) =>
          /\ phase = "panicked"
          /\ last.why \in {"ZSTs are not supported", "numel=0"}
          /\ allocCalls = <<>>
          /\ obj = NoObj
    /\ obj.kind \in Buffers => (obj.numel > 0 /\ obj.tsize > 0)

C13_Witness ==
    /\ req.ctor = "RcBuffer"
    /\ req.numel = 0
    /\ req.T.size > 0
    /\ phase = "panicked"
    /\ last.why = "numel=0"

\* C14: when numel * size_of(T) does not fit the machine word, constructing
\* a Buffer panics before any allocator call and returns no Buffer.
C14_OverflowPanics ==
    (req.ctor \in Buffers /\ req.numel * req.T.size > USIZE_MAX) =>
        /\ phase = "panicked"
        /\ allocCalls = <<>>
        /\ obj = NoObj

C14_Witness ==
    /\ req.ctor = "Buffer"
    /\ req.numel * req.T.size > USIZE_MAX
    /\ ~build.debug
    /\ phase = "panicked"
    /\ last.why = "overflowed"

PowerOfTwo(n) == \E k \in 0..WordBits : n = 2 ^ k

\* The alignment the policy of the request stands for.
PolicyAlign ==
    IF req.A.kind = "custom" THEN req.A.ALIGN
    ELSE IF build.target = "neon" THEN 16
    ELSE IF build.target = "avx2" THEN 32
    ELSE req.T.align

C16_ZeroedAllZero ==
    (phase = "built"
       /\ \/ (obj.kind = "Buffer" /\ req.I = "Zeroed")
          \/ (obj.kind = "RcBuffer" /\ req.zeroed)) =>
        \A i \in DOMAIN obj.mem : obj.mem[i] = 0

----------------------------------------------------------------------------
(* Claims about Storage<T> at element level, checked under SpecSt.         *)

\* C5: destroying an allocated Storage of numel > 0 elements of which
\* exactly k were initialized runs exactly k element destructions and makes
\* exactly one dealloc call, for every k from 0 to numel.
C5_DropRunsKDestructions ==
    (last.op = "drop" /\ last.numel > 0 /\ last.size > 0 /\ Ty.needs_drop)
        => (last.drops = last.k /\ last.deallocs = 1)

\* C6: on no path is a slot that was never initialized read as T, and on
\* no path does T's destructor run on such a slot.
C6_UninitNeverTouched ==
    "read_uninit" \notin ubs /\ "drop_uninit" \notin ubs

\* C7: Storage::new(s) succeeds with len() = |s|, and reading the Storage
\* back, through as_slice() or element by element, yields s in order.
C7_RoundTrip ==
    /\ last.op = "new" =>
          /\ last.res = "Ok"
          /\ stores[last.h].len = Len(stores[last.h].src)
    /\ (last.op = "as_slice" /\ stores[last.h].filled) =>
          last.out = stores[last.h].src
    /\ (last.op = "direct_read" /\ last.res = "ok" /\ stores[last.h].filled) =>
          last.val = stores[last.h].src[last.offset + 1]

\* C8: filling a Storage of capacity c from a sequence of length m # c
\* returns the size-mismatch error, copies no element, and the Storage's
\* allocation is still released exactly once when the Storage is dropped.
C8_MismatchKeepsStorage ==
    /\ (last.op = "with_container" /\ last.m # last.c) =>
          /\ last.res = "MemoryViolation"
          /\ heap[stores[last.h].region].slots = last.before
    /\ (last.op = "drop" /\ last.mismatch /\ last.size > 0) =>
          (last.res = "ok" /\ last.deallocs = 1)

SourceValid ==
    LET before == last.before[last.storesBefore[last.src].region].slots IN
    \A i \in DOMAIN before : Valid(before[i])

\* C9: duplicating a Storage whose elements are all initialized gives a new
\* Storage of the same length, on its own allocation, whose elements are
\* values equal to the source's; the source is unchanged by it, and a
\* write to one Storage changes no other Storage's contents.
C9_DuplicateIndependent ==
    /\ (last.op \in {"clone_storage", "copy_storage"} /\ last.res = "ok" /\ SourceValid) =>
          LET from == stores[last.src]
              to   == stores[last.h]
              a    == heap[from.region].slots
              b    == heap[to.region].slots
          IN  /\ to.len = from.len
              /\ to.region # from.region
              /\ Len(b) = Len(a)
              /\ \A i \in DOMAIN a : Valid(b[i]) /\ b[i].val = a[i].val
              /\ from = last.storesBefore[last.src]
              /\ heap[from.region] = last.before[from.region]
              /\ \A i \in DOMAIN a : Valid(a[i])
    /\ last.op = "direct_write" =>
          \A r \in DOMAIN heap :
             r # stores[last.h].region => heap[r] = last.before[r]

\* The destructor runs made on the j clones of a clone_storage call.
CloneDtors ==
    [e \in {Ev("dtor", last.firstId + i - 1, 0) : i \in 1..last.j} |-> 1]

\* C10: when cloning an element panics after j elements of a Storage of
\* initialized elements were cloned, each of the j clones is destroyed
\* exactly once and nothing else is destroyed, no new Storage exists, and
\* the source Storage is as it was.
C10_ClonePanicCleanup ==
    (last.op = "clone_storage" /\ last.res = "panic" /\ SourceValid) =>
        /\ \A i \in 1..last.j : DtorRuns(last.firstId + i - 1) = 1
        /\ log = last.logBefore (+) CloneDtors
        /\ nextId = last.firstId + last.j
        /\ stores = last.storesBefore
        /\ heap = last.before

C10_Witness ==
    /\ last.op = "clone_storage" /\ last.res = "panic" /\ SourceValid
    /\ last.j >= 1
    /\ Ty.needs_drop
    /\ stores[last.src].len > last.j

\* C17: a Storage constructed for numel elements, none of them written,
\* has len() = 0, and a safe read at any index reports no element.
C17_FreshStorageEmpty ==
    /\ \A h \in LiveStores :
          (stores[h].fresh /\ Ty.size > 0) => Storage_len(stores[h]) = 0
    /\ (last.op = "direct_read" /\ stores[last.h].fresh /\ Ty.size > 0) =>
          last.res = "panic"

\* Exactly the first k slots hold a value.
PrefixInit(slots, k) ==
    \A i \in DOMAIN slots : IsInit(slots[i]) <=> i <= k

\* C18: the k-th write in index order on a fresh Storage (k >= 1) makes
\* len() = k and leaves the elements written before as they were; then a
\* safe read at i < k returns the i-th written value and a safe read at
\* i >= k reports no element.
C18_WritesAdvanceLen ==
    /\ (last.op = "direct_write" /\ Ty.size > 0
          /\ PrefixInit(last.before[stores[last.h].region].slots, last.offset)) =>
          LET r == stores[last.h].region IN
          /\ Storage_len(stores[last.h]) = last.offset + 1
          /\ \A i \in 1..last.offset :
                heap[r].slots[i] = last.before[r].slots[i]
          /\ Valid(heap[r].slots[last.offset + 1])
    /\ (last.op = "direct_read" /\ Ty.size > 0) =>
          LET slots == heap[stores[last.h].region].slots IN
          \A k \in 1..Len(slots) :
             PrefixInit(slots, k) =>
                IF last.offset >= k THEN last.res = "panic"
                ELSE last.res = "ok" /\ last.val = slots[last.offset + 1].val

\* C19: a write over a slot that holds an element destroys the element it
\* replaces, exactly once.
C19_OverwriteDestroysOld ==
    (last.op = "direct_write" /\ Ty.needs_drop) =>
        LET old == last.before[stores[last.h].region].slots[last.offset + 1] IN
        IsInit(old) => DtorRuns(old.id) = 1

RECURSIVE LiveDtors(_, _, _)
\* The destructor runs on the live elements among slots, from index i on.
LiveDtors(slots, live, i) ==
    IF i > Len(slots) THEN <<>>
    ELSE (IF live[i] THEN <<Ev("dtor", slots[i].id, 0)>> ELSE <<>>)
            \o LiveDtors(slots, live, i + 1)

\* C20: dropping an allocated Storage destroys its live elements in
\* ascending index order, and the one release of the allocation comes
\* after every destructor run, as the last thing the drop does.
C20_DropOrder ==
    (last.op = "drop" /\ last.size > 0 /\ Ty.needs_drop) =>
        LET evs == last.events
            expected == LiveDtors(last.slots, last.live, 1)
            OfLive(e) == \E i \in DOMAIN expected : expected[i] = e
        IN  /\ SelectSeq(evs, OfLive) = expected
            /\ Len(evs) >= 1
            /\ evs[Len(evs)] = Ev("dealloc", stores[last.h].region, 0)
            /\ \A i \in 1..(Len(evs) - 1) : evs[i].ev # "dealloc"

C28_ElementsDestroyedOnce ==
    /\ \A id \in 1..(nextId - 1) : DtorRuns(id) <= 1
    /\ (last.op = "drop" /\ last.res = "ok") =>
          \A i \in 1..last.numel :
             (IsInit(last.slots[i]) /\ last.slots[i].id > 0) =>
                DtorRuns(last.slots[i].id) = 1


\* C29: every byte written while a Buffer or a Storage is constructed (the
\* debug poison fill, the zero fill of the trailing padding) lies inside the
\* allocation, at an offset in [0, layout.size()) from the returned pointer.
C29_WritesInsideAllocation ==
    phase = "built" =>
       \A i \in DOMAIN obj.writes :
          /\ obj.writes[i].start >= 0
          /\ obj.writes[i].end <= obj.size


\* C27: in the BufferBuilder of src/buffer.rs, for every power of two a
\* passed to with_alignment, a = 1 included, the built Buffer's layout
\* alignment is a; the platform default is used only when with_alignment was
\* never called; zeroed() and with_alignment() change only their own setting
\* and build hands numel on unchanged.
C27_RcBuilderAlignment ==
    [][ /\ (builder.impl = "rc" /\ builder'.impl = "rc") =>
              /\ builder'.numel = builder.numel
              /\ (builder'.zeroed # builder.zeroed) => (builder'.align = builder.align)
              /\ (builder'.align # builder.align) => (builder'.zeroed = builder.zeroed)
        /\ (builder.impl = "rc" /\ phase' = "built") =>
              /\ obj'.numel = builder.numel
              /\ (builder.asked # 0 /\ PowerOfTwo(builder.asked)) =>
                    obj'.align = builder.asked
              /\ (builder.asked = 0) =>
                    obj'.align = SimdAlignment_alignment(req'.T, build.target)
      ]_vars


----------------------------------------------------------------------------
(* Claims about shapes, conversions and indexing, checked under SpecSh.    *)

\* The product of the dimensions after the k-th.
RECURSIVE Stride(_, _)
Stride(dims, k) == IF k >= Len(dims) THEN 1 ELSE dims[k + 1] * Stride(dims, k + 1)

\* The row-major offset of index in a shape: the sum over k of
\* index[k] * Stride(dims, k).
RECURSIVE RowMajorFrom(_, _, _)
RowMajorFrom(dims, index, k) ==
    IF k > Len(dims) THEN 0
    ELSE index[k] * Stride(dims, k) + RowMajorFrom(dims, index, k + 1)

RowMajor(dims, index) == RowMajorFrom(dims, index, 1)

InRange(dims, index) ==
    /\ Len(index) = Len(dims)
    /\ \A k \in 1..Len(dims) : index[k] < dims[k]

\* C22: for an index with as many entries as the shape has dimensions and
\* index[k] < dims[k] for all k, linear_index returns the row-major offset,
\* which is below volume(), and tensor[index] reads the element stored at
\* that position.
C22_LinearIndexRowMajor ==
    (last.op = "index" /\ InRange(tensors[last.t].shape, last.index)) =>
       LET t  == tensors[last.t]
           at == RowMajor(t.shape, last.index)
       IN  /\ last.offset = at
           /\ last.offset < Shape_volume(t.shape, FALSE)
           /\ last.res = "ok"
           /\ Valid(heap[stores[t.storage].region].slots[at + 1]) =>
                 last.val = heap[stores[t.storage].region].slots[at + 1].val

\* C23: when some index[k] >= dims[k], linear_index panics and returns no
\* offset; Index and IndexMut never read or hand out a reference to an
\* offset >= len().
C23_OutOfRangePanics ==
    (last.op \in {"index", "index_mut"}) =>
       LET t == tensors[last.t] IN
       /\ (\E k \in 1..Len(last.index) :
              k <= Len(t.shape) /\ last.index[k] >= t.shape[k]) =>
             (last.offset = PANIC /\ last.res = "panic")
       /\ (last.res = "ok") => (last.offset < Tensor_len(t))

\* The k-th dimension of the batch dimensions c once they are padded with
\* 1s on the left to n dimensions.
Padded(c, n, k) == IF k > n - Len(c) THEN c[k - (n - Len(c))] ELSE 1

Larger(m, n) == IF m >= n THEN m ELSE n

\* C24: for a = [batchA..., M, K] and b = [batchB..., K, N],
\* can_broadcast_matmul returns Ok([broadcast(batchA, batchB)..., M, N]):
\* the batch dimensions aligned from the right, missing ones taken as 1,
\* each the non-1 or common size, in their left-to-right order.  It returns
\* an error when a shape has no dimension, when the inner dimensions K
\* differ, or when an aligned batch pair differs with neither size 1.
C24_MatmulBroadcast ==
    (last.op = "can_broadcast_matmul") =>
       LET a == last.a
           b == last.b
       IN  /\ (Len(a) = 0 \/ Len(b) = 0) => last.out.res # "Ok"
           /\ (Len(a) >= 2 /\ Len(b) >= 2) =>
                 LET batchA == SubSeq(a, 1, Len(a) - 2)
                     batchB == SubSeq(b, 1, Len(b) - 2)
                     n      == Larger(Len(batchA), Len(batchB))
                     fits   == \A k \in 1..n :
                                  \/ Padded(batchA, n, k) = Padded(batchB, n, k)
                                  \/ Padded(batchA, n, k) = 1
                                  \/ Padded(batchB, n, k) = 1
                     batch  == [k \in 1..n |->
                                  IF Padded(batchA, n, k) = 1
                                  THEN Padded(batchB, n, k) ELSE Padded(batchA, n, k)]
                 IN  IF a[Len(a)] # b[Len(b) - 1] \/ ~fits
                     THEN last.out.res # "Ok"
                     ELSE /\ last.out.res = "Ok"
                          /\ last.out.shape = batch \o <<a[Len(a) - 1], b[Len(b)]>>

\* The rows of a nested Vec: those of a Vec<Vec<T>>, or of all the planes of
\* a Vec<Vec<Vec<T>>>.
Planes == IF last.kind = "VecVec" THEN <<last.data>> ELSE last.data

Ragged ==
    \/ \E p \in DOMAIN Planes, q \in DOMAIN Planes : Len(Planes[p]) # Len(Planes[q])
    \/ \E p \in DOMAIN Planes, q \in DOMAIN Planes :
          \E r \in DOMAIN Planes[p], u \in DOMAIN Planes[q] :
             Len(Planes[p][r]) # Len(Planes[q][u])

\* (planes, rows, columns) of a nested Vec that is not ragged; a level below
\* an empty one counts 0.
Rows == IF Len(Planes) = 0 THEN 0 ELSE Len(Planes[1])

Columns == IF Rows = 0 THEN 0 ELSE Len(Planes[1][1])

NestedShape ==
    IF last.kind = "VecVec" THEN <<Rows, Columns>>
    ELSE <<Len(last.data), IF Len(last.data) = 0 THEN 0 ELSE Rows,
           IF Len(last.data) = 0 THEN 0 ELSE Columns>>

\* C25: Tensor::new on a Vec<Vec<T>> or Vec<Vec<Vec<T>>> returns the
\* inconsistent-dimensions error exactly when the nested lengths are not all
\* equal at some level, without a panic and without a tensor; otherwise it
\* returns a tensor of shape (planes, rows, columns) whose elements are the
\* input's, flattened in row-major order.
C25_NestedVecConversion ==
    (last.op = "new" /\ last.kind \in {"VecVec", "VecVecVec"}) =>
       /\ Ragged <=> (last.res = "InconsistentDimensions")
       /\ Ragged => tensors = <<>>
       /\ ~Ragged =>
             /\ last.res = "Ok"
             /\ Len(tensors) = 1
             /\ tensors[1].shape = NestedShape
             /\ LET slots == heap[stores[tensors[1].storage].region].slots IN
                \A p \in DOMAIN Planes : \A r \in DOMAIN Planes[p] :
                   \A c \in DOMAIN Planes[p][r] :
                      LET at == ((p - 1) * Rows + (r - 1)) * Columns + (c - 1) IN
                      /\ at < Len(slots)
                      /\ Valid(slots[at + 1])
                      /\ slots[at + 1].val = Planes[p][r][c].val

\* C26: every Tensor that to_tensor returns has len() equal to the product
\* of its shape's dimensions, shape().volume() = storage().len(), and all
\* its len() elements are initialized.
C26_LenIsVolume ==
    \A t \in DOMAIN tensors :
       LET st    == stores[tensors[t].storage]
           slots == heap[st.region].slots
       IN  /\ Tensor_len(tensors[t]) = Shape_volume(tensors[t].shape, FALSE)
           /\ Shape_volume(tensors[t].shape, FALSE) = Storage_len(st)
           /\ Len(slots) = Tensor_len(tensors[t])
           /\ \A i \in DOMAIN slots : Valid(slots[i])


====
